---- MODULE Spec2Model ----
(***************************************************************************)
(* The parser combinators of utils/parser.py as a state machine.           *)
(*                                                                         *)
(* A parser object is a record that holds the fields its constructor       *)
(* assigns; an Optional field is the empty tuple (None) or a 1-tuple.      *)
(* Parser._parse is a call: it pushes a frame on `stack`, and every        *)
(* _parse_impl runs as one action per stretch of code between two calls.   *)
(* `ret` carries what the callee handed to its caller: a ParseResult or a  *)
(* raised exception.  Offsets are 0-based as in the source, so the         *)
(* character at offset o is data[o + 1].                                   *)
(***************************************************************************)
EXTENDS Integers, Sequences, FiniteSets, TLC

VARIABLES
    call,      \* the constructor call that builds the grammar: class and keywords
    data,      \* the input string of the running parse
    root,      \* <<parser>> handed to parse_string, <<>> when there is none
    stack,     \* call stack of _parse frames, the last one is running
    ret,       \* signal from the callee that just finished
    outcome,   \* what the program got: parse_string's value or an exception
    pc,        \* "idle", "running", "parsed" (back in file_reader), "done"
    trace,     \* history of calls, returns, raises and post_parse calls
    nraised,   \* number of exception objects created in this parse
    reader,    \* <<the file read and the calls of func>> in file_reader, else <<>>
    other,     \* <<the parse of a second thread on the same parser tree>>, else <<>>
    alone,     \* <<what the parse of this thread's input returned when run alone>>
    grid       \* <<a Grid2D object>>, else <<>>

vars == <<call, data, root, stack, ret, outcome, pc, trace, nraised, reader, other, alone, grid>>

\* what no step of a running parse changes
env == <<call, data, root, outcome, pc, reader, other, alone, grid>>

(***************************************************************************)
(* Bounds of the model.                                                    *)
(***************************************************************************)
MaxLen == 3
MaxCount == 2
MaxParsers == 2

Alphabet == {"a", "1", ",", "\n"}

(***************************************************************************)
(* Python values.                                                          *)
(***************************************************************************)
None == [t |-> "none", s |-> <<>>, l |-> <<>>, n |-> 0]
Str(s) == [t |-> "str", s |-> s, l |-> <<>>, n |-> 0]
List(l) == [t |-> "list", s |-> <<>>, l |-> l, n |-> 0]
Tuple(l) == [t |-> "tuple", s |-> <<>>, l |-> l, n |-> 0]
IntV(n) == [t |-> "int", s |-> <<>>, l |-> <<>>, n |-> n]
Member(name) == [t |-> "enum", s |-> name, l |-> <<>>, n |-> 0]     \* typ[name]
Object(args) == [t |-> "object", s |-> <<>>, l |-> args, n |-> 0]   \* typ(*args)

NoExc == [type |-> "", msg |-> "", id |-> 0]
NoRet == [kind |-> "none", result |-> None, new_offset |-> 0, exc |-> NoExc]
ParseResult(result, new_offset) ==
    [kind |-> "return", result |-> result, new_offset |-> new_offset, exc |-> NoExc]
Raised(exc) == [kind |-> "raise", result |-> None, new_offset |-> 0, exc |-> exc]

(***************************************************************************)
(* Parser objects: what each __init__ stores.                              *)
(***************************************************************************)
Char(allowed_chars, illegal_chars) ==
    [kind |-> "Char", allowed_chars |-> allowed_chars, illegal_chars |-> illegal_chars]

Repeat(base_parser, separator, min, max) ==
    [kind |-> "Repeat", base_parser |-> base_parser, separator_parser |-> separator,
     min |-> min, max |-> max]

FunctionParser(base_parser, post_parse) ==
    [kind |-> "FunctionParser", base_parser |-> base_parser, post_parse |-> post_parse]

Pair(parser1, parser2) ==
    [kind |-> "Pair", parser1 |-> parser1, parser2 |-> parser2]

Series(parsers, separator) ==
    [kind |-> "Series", parsers |-> parsers, separator_parser |-> separator]

(***************************************************************************)
(* The callables handed to FunctionParser.  A callable is a record naming  *)
(* the function and the variables its closure captured; Call gives what    *)
(* calling it on x does: a value, or the type of the exception it raises.  *)
(***************************************************************************)
\* a class: the member names of an Enum, the fields of a dataclass
Class(members, fields) == [members |-> members, fields |-> fields]
NoClass == Class({}, <<>>)

Fn(fn) == [fn |-> fn, padding |-> {}, base |-> 10, typ |-> NoClass]
join == Fn("join")                      \* "".join
int == Fn("int")                        \* the builtin int
first == Fn("first")                    \* lambda x: x[0]
discard == Fn("discard")                \* lambda x: None
int_of_pair(padding, base) ==           \* lambda x: int(x[1].lstrip(padding), base)
    [fn |-> "int_of_pair", padding |-> padding, base |-> base, typ |-> NoClass]
lookup(typ) ==                          \* lambda x: typ[x]
    [fn |-> "lookup", padding |-> {}, base |-> 10, typ |-> typ]
construct(typ) ==                       \* lambda x: typ(*x)
    [fn |-> "construct", padding |-> {}, base |-> 10, typ |-> typ]

Value(v) == [ok |-> TRUE, value |-> v, err |-> ""]
Error(type) == [ok |-> FALSE, value |-> None, err |-> type]

Whitespace == {" ", "\t", "\n", "\r", "\f"}

DigitVal ==
    [c \in {"0", "1", "2", "3", "4", "5", "6", "7", "8", "9",
            "a", "b", "c", "d", "e", "f", "A", "B", "C", "D", "E", "F"} |->
        CASE c = "0" -> 0 [] c = "1" -> 1 [] c = "2" -> 2 [] c = "3" -> 3
          [] c = "4" -> 4 [] c = "5" -> 5 [] c = "6" -> 6 [] c = "7" -> 7
          [] c = "8" -> 8 [] c = "9" -> 9
          [] c \in {"a", "A"} -> 10 [] c \in {"b", "B"} -> 11
          [] c \in {"c", "C"} -> 12 [] c \in {"d", "D"} -> 13
          [] c \in {"e", "E"} -> 14 [] c \in {"f", "F"} -> 15]

IsDigit(c, base) == c \in DOMAIN DigitVal /\ DigitVal[c] < base

RECURSIVE lstrip(_, _)
lstrip(s, chars) ==
    IF s /= <<>> /\ Head(s) \in chars THEN lstrip(Tail(s), chars) ELSE s

RECURSIVE rstrip(_, _)
rstrip(s, chars) ==
    IF s /= <<>> /\ s[Len(s)] \in chars
    THEN rstrip(SubSeq(s, 1, Len(s) - 1), chars) ELSE s

RECURSIVE Concat(_)
Concat(ss) == IF ss = <<>> THEN <<>> ELSE Head(ss) \o Concat(Tail(ss))

\* int(s, base) for 2 <= base <= 16: surrounding whitespace, a sign, the
\* prefix of bases 2, 8 and 16, then digits with single underscores between.
BasePrefix(base) ==
    CASE base = 2 -> {"b", "B"} [] base = 8 -> {"o", "O"}
      [] base = 16 -> {"x", "X"} [] OTHER -> {}

RECURSIVE DigitsValue(_, _, _)
DigitsValue(s, base, acc) ==
    IF s = <<>> THEN acc
    ELSE IF Head(s) = "_" THEN DigitsValue(Tail(s), base, acc)
    ELSE DigitsValue(Tail(s), base, acc * base + DigitVal[Head(s)])

ParseInt(str, base) ==
    LET stripped == rstrip(lstrip(str, Whitespace), Whitespace)
        signed == stripped /= <<>> /\ Head(stripped) \in {"+", "-"}
        body == IF signed THEN Tail(stripped) ELSE stripped
        prefixed == /\ Len(body) >= 2
                    /\ body[1] = "0"
                    /\ body[2] \in BasePrefix(base)
        digits == IF prefixed THEN SubSeq(body, 3, Len(body)) ELSE body
        wellformed ==
            /\ digits /= <<>>
            /\ \A i \in 1..Len(digits) :
                 \/ IsDigit(digits[i], base)
                 \/ /\ digits[i] = "_"
                    /\ i < Len(digits)
                    /\ IsDigit(digits[i + 1], base)
                    /\ (i > 1 \/ prefixed)
                    /\ (i > 1 => IsDigit(digits[i - 1], base))
        magnitude == DigitsValue(digits, base, 0)
    IN  IF wellformed
        THEN Value(IntV(IF signed /\ Head(stripped) = "-" THEN 0 - magnitude ELSE magnitude))
        ELSE Error("ValueError")

\* x[i] for the 0-based index i
Index(x, i) ==
    CASE x.t \in {"list", "tuple"} ->
            IF i < Len(x.l) THEN Value(x.l[i + 1]) ELSE Error("IndexError")
      [] x.t = "str" ->
            IF i < Len(x.s) THEN Value(Str(<<x.s[i + 1]>>)) ELSE Error("IndexError")
      [] OTHER -> Error("TypeError")

Call(f, x) ==
    CASE f.fn = "join" ->
            IF x.t \in {"list", "tuple"}
            THEN IF \A i \in 1..Len(x.l) : x.l[i].t = "str"
                 THEN Value(Str(Concat([i \in 1..Len(x.l) |-> x.l[i].s])))
                 ELSE Error("TypeError")
            ELSE IF x.t = "str" THEN Value(x) ELSE Error("TypeError")
      [] f.fn = "int" ->
            IF x.t = "str" THEN ParseInt(x.s, 10)
            ELSE IF x.t = "int" THEN Value(x) ELSE Error("TypeError")
      [] f.fn = "first" -> Index(x, 0)
      [] f.fn = "discard" -> Value(None)
      [] f.fn = "int_of_pair" ->
            LET item == Index(x, 1) IN
            IF ~item.ok THEN item
            ELSE IF item.value.t /= "str" THEN Error("AttributeError")
            ELSE ParseInt(lstrip(item.value.s, f.padding), f.base)
      [] f.fn = "lookup" ->
            IF x.t = "str" /\ x.s \in f.typ.members
            THEN Value(Member(x.s)) ELSE Error("KeyError")
      [] f.fn = "construct" ->
            LET args == CASE x.t \in {"list", "tuple"} -> <<x.l>>
                          [] x.t = "str" -> <<[i \in 1..Len(x.s) |-> Str(<<x.s[i]>>)]>>
                          [] OTHER -> <<>>
            IN  IF args /= <<>> /\ Len(args[1]) = Len(f.typ.fields)
                THEN Value(Object(args[1])) ELSE Error("TypeError")

(***************************************************************************)
(* The derived parsers and the module's parser objects.                    *)
(***************************************************************************)
NoChars == <<>>            \* allowed_chars=None
NoParser == <<>>           \* separator=None
NoCount == <<>>            \* min=None, max=None
Digits == {"0", "1", "2", "3", "4", "5", "6", "7", "8", "9"}

\* String with at least one character asked of the Repeat
String_min_one(allowed_chars, illegal_chars) ==
    FunctionParser(Repeat(Char(allowed_chars, illegal_chars), NoParser, <<1>>, NoCount),
                   join)

String(allowed_chars, illegal_chars) ==
    FunctionParser(Repeat(Char(allowed_chars, illegal_chars), NoParser, NoCount, NoCount),
                   join)

Int_(base, padding) ==        \* Int (the name Int is the set of integers)
    FunctionParser(Pair(String(<<padding>>, {"\n"}), String(<<Digits>>, {"\n"})),
                   int_of_pair(padding, base))

\* Literal with the Chars keeping the default illegal_chars
Literal_default_illegal(lit) ==
    FunctionParser(Series([i \in 1..Len(lit) |-> Char(<<{lit[i]}>>, {"\n"})], NoParser), join)

Literal(lit) ==
    FunctionParser(Series([i \in 1..Len(lit) |-> Char(<<{lit[i]}>>, {})], NoParser), join)

NewLine == Char(<<{"\n"}>>, {})

\* IgnoreNewline with the newline kept in the value
IgnoreNewline_kept(parser) == FunctionParser(Pair(parser, NewLine), join)

IgnoreNewline(parser) == FunctionParser(Pair(parser, NewLine), first)

Suppress(parser) == FunctionParser(parser, discard)

\* string.ascii_letters
Letters ==
    {"a", "b", "c", "d", "e", "f", "g", "h", "i", "j", "k", "l", "m",
     "n", "o", "p", "q", "r", "s", "t", "u", "v", "w", "x", "y", "z",
     "A", "B", "C", "D", "E", "F", "G", "H", "I", "J", "K", "L", "M",
     "N", "O", "P", "Q", "R", "S", "T", "U", "V", "W", "X", "Y", "Z"}

Word == String(<<Letters>>, {"\n"})

\* Enumeration with the name looked up in the whole text up to the newline
Enumeration_any_text(typ) == FunctionParser(String(NoChars, {"\n"}), lookup(typ))

\* typ is an Enum: the check of issubclass is passed
Enumeration(typ) == FunctionParser(Word, lookup(typ))

DataClass(typ, parser) == FunctionParser(parser, construct(typ))

Line == IgnoreNewline(String(NoChars, {"\n"}))
Lines == Repeat(Line, NoParser, NoCount, NoCount)
IntLine == FunctionParser(Line, int)
IntLines == Repeat(IntLine, NoParser, NoCount, NoCount)

(***************************************************************************)
(* The call stack.  A frame holds self, the locals of the _parse_impl it   *)
(* runs and, for the history, the role the callee plays for its caller.    *)
(***************************************************************************)
Frame(self, offset, role, idx) ==
    [self |-> self, offset |-> offset, pc |-> "start", results |-> <<>>, i |-> 1,
     result1 |-> NoRet, role |-> role, idx |-> idx]

\* an entry of the history: what happened (ev) to the frame at `depth`, whose
\* parser is of class `kind` and which the _parse_impl of class `by` called
Ev(ev, depth, by, kind, role, idx, off, id, val) ==
    [ev |-> ev, depth |-> depth, by |-> by, kind |-> kind, role |-> role, idx |-> idx,
     off |-> off, id |-> id, val |-> val]

Running == pc = "running" /\ stack /= <<>>
Top == stack[Len(stack)]
Popped == SubSeq(stack, 1, Len(stack) - 1)
Caller == IF Len(stack) > 1 THEN stack[Len(stack) - 1].self.kind ELSE "parse_string"
TopEv(ev, off, id, val) ==
    Ev(ev, Len(stack), Caller, Top.self.kind, Top.role, Top.idx, off, id, val)

\* return ParseResult(result, new_offset)
DoReturn(pre, result, new_offset) ==
    /\ stack' = Popped
    /\ ret' = ParseResult(result, new_offset)
    /\ trace' = trace \o pre \o <<TopEv("return", new_offset, 0, result)>>
    /\ UNCHANGED nraised

\* raise a new exception object
DoRaise(pre, type, msg) ==
    /\ stack' = Popped
    /\ ret' = Raised([type |-> type, msg |-> msg, id |-> nraised + 1])
    /\ nraised' = nraised + 1
    /\ trace' = trace \o pre \o <<TopEv("raise", Top.offset, nraised + 1, None)>>

\* an exception of the callee that this frame does not catch
DoPropagate ==
    /\ stack' = Popped
    /\ ret' = ret
    /\ trace' = Append(trace, TopEv("raise", Top.offset, ret.exc.id, None))
    /\ UNCHANGED nraised

\* parser._parse(data, offset), the caller's frame becoming `frame`
DoCall(frame, parser, offset, role, idx) ==
    /\ stack' = Append(Popped, frame) \o <<Frame(parser, offset, role, idx)>>
    /\ ret' = NoRet
    /\ trace' = Append(trace, Ev("call", Len(stack) + 1, Top.self.kind, parser.kind,
                                 role, idx, offset, 0, None))
    /\ UNCHANGED nraised

\* the frame goes on with its next statement
DoStep(frame) ==
    /\ stack' = Append(Popped, frame)
    /\ ret' = NoRet
    /\ UNCHANGED <<trace, nraised>>

(***************************************************************************)
(* Char._parse_impl                                                        *)
(***************************************************************************)
\* Char._parse_impl with the illegal characters tested before the allowed ones
Char_parse_impl_illegal_first ==
    /\ Running
    /\ Top.self.kind = "Char"
    /\ LET self == Top.self
           offset == Top.offset
       IN  IF offset = Len(data)
           THEN DoRaise(<<>>, "ParseException", "reached end of input")
           ELSE IF offset > Len(data)
           THEN DoRaise(<<>>, "IndexError", "string index out of range")
           ELSE IF data[offset + 1] \in self.illegal_chars
           THEN DoRaise(<<>>, "ParseException", "Expected no")
           ELSE IF self.allowed_chars /= <<>> /\ data[offset + 1] \notin self.allowed_chars[1]
           THEN DoRaise(<<>>, "ParseException", "Expected one of")
           ELSE DoReturn(<<>>, Str(<<data[offset + 1]>>), offset + 1)
    /\ UNCHANGED env

\* Char_parse_impl that reads data[offset] before the test for the end
Char_parse_impl_read_first ==
    /\ Running
    /\ Top.self.kind = "Char"
    /\ LET self == Top.self
           offset == Top.offset
       IN  IF offset >= Len(data)
           THEN DoRaise(<<>>, "IndexError", "string index out of range")
           ELSE IF self.allowed_chars /= <<>> /\ data[offset + 1] \notin self.allowed_chars[1]
           THEN DoRaise(<<>>, "ParseException", "Expected one of")
           ELSE IF data[offset + 1] \in self.illegal_chars
           THEN DoRaise(<<>>, "ParseException", "Expected no")
           ELSE DoReturn(<<>>, Str(<<data[offset + 1]>>), offset + 1)
    /\ UNCHANGED env

Char_parse_impl ==
    /\ Running
    /\ Top.self.kind = "Char"
    /\ LET self == Top.self
           offset == Top.offset
       IN  IF offset = Len(data)
           THEN DoRaise(<<>>, "ParseException", "reached end of input")
           ELSE IF offset > Len(data)
           THEN DoRaise(<<>>, "IndexError", "string index out of range")
           ELSE IF self.allowed_chars /= <<>> /\ data[offset + 1] \notin self.allowed_chars[1]
           THEN DoRaise(<<>>, "ParseException", "Expected one of")
           ELSE IF data[offset + 1] \in self.illegal_chars
           THEN DoRaise(<<>>, "ParseException", "Expected no")
           ELSE DoReturn(<<>>, Str(<<data[offset + 1]>>), offset + 1)
    /\ UNCHANGED env

(***************************************************************************)
(* Repeat._parse_impl                                                      *)
(***************************************************************************)
\* Repeat_exit without the min check
Repeat_exit_no_min(self, results, offset) ==
    DoReturn(<<>>, List(results), offset)

\* after the loop: the min check and the return
Repeat_exit(self, results, offset) ==
    IF self.min /= <<>> /\ Len(results) < self.min[1]
    THEN DoRaise(<<>>, "ParseException", "Expected more repetitions")
    ELSE DoReturn(<<>>, List(results), offset)

\* `while True` is followed for as many rounds as a Repeat that ends can make
\* on this input; a Repeat that is cut here never ends
WithinRounds(frame) == Len(frame.results) <= Len(data) + MaxCount

\* Repeat_try with the separator asked for before the first child too
Repeat_try_separator_always ==
    /\ Running
    /\ Top.self.kind = "Repeat"
    /\ Top.pc = "start"
    /\ WithinRounds(Top)
    /\ LET self == Top.self IN
       IF self.separator_parser /= <<>>
       THEN DoCall([Top EXCEPT !.pc = "separator"], self.separator_parser[1],
                   Top.offset, "separator", 0)
       ELSE DoCall([Top EXCEPT !.pc = "base"], self.base_parser, Top.offset, "base", 0)
    /\ UNCHANGED env

\* the head of the try block: the separator when there are results, else the child
Repeat_try ==
    /\ Running
    /\ Top.self.kind = "Repeat"
    /\ Top.pc = "start"
    /\ WithinRounds(Top)
    /\ LET self == Top.self IN
       IF self.separator_parser /= <<>> /\ Top.results /= <<>>
       THEN DoCall([Top EXCEPT !.pc = "separator"], self.separator_parser[1],
                   Top.offset, "separator", 0)
       ELSE DoCall([Top EXCEPT !.pc = "base"], self.base_parser, Top.offset, "base", 0)
    /\ UNCHANGED env

\* Repeat_separator_returned with the child run at sep_result.new_offset and
\* the local offset left where it was
Repeat_separator_returned_offset_kept ==
    /\ Running
    /\ Top.self.kind = "Repeat"
    /\ Top.pc = "separator"
    /\ ret.kind = "return"
    /\ DoCall([Top EXCEPT !.pc = "base"], Top.self.base_parser, ret.new_offset, "base", 0)
    /\ UNCHANGED env

\* offset = sep_result.new_offset, then the child
Repeat_separator_returned ==
    /\ Running
    /\ Top.self.kind = "Repeat"
    /\ Top.pc = "separator"
    /\ ret.kind = "return"
    /\ DoCall([Top EXCEPT !.pc = "base", !.offset = ret.new_offset],
              Top.self.base_parser, ret.new_offset, "base", 0)
    /\ UNCHANGED env

\* Repeat_base_returned with max kept as a countdown on self
Repeat_base_returned_counting_down ==
    /\ Running
    /\ Top.self.kind = "Repeat"
    /\ Top.pc = "base"
    /\ ret.kind = "return"
    /\ LET appended == ret.result.t /= "none"
           results == IF appended THEN Append(Top.results, ret.result) ELSE Top.results
           self == IF appended /\ Top.self.max /= <<>> /\ Top.self.max[1] > 0
                   THEN [Top.self EXCEPT !.max = <<@[1] - 1>>]
                   ELSE Top.self
       IN  IF self.max = <<0>> /\ results /= <<>>
           THEN Repeat_exit(self, results, ret.new_offset)
           ELSE DoStep([Top EXCEPT !.pc = "start", !.offset = ret.new_offset,
                                   !.results = results, !.self = self])
    /\ UNCHANGED env

\* Repeat_base_returned without `offset = result.new_offset`
Repeat_base_returned_offset_kept ==
    /\ Running
    /\ Top.self.kind = "Repeat"
    /\ Top.pc = "base"
    /\ ret.kind = "return"
    /\ LET self == Top.self
           results == IF ret.result.t /= "none"
                      THEN Append(Top.results, ret.result)
                      ELSE Top.results
       IN  IF self.max /= <<>> /\ Len(results) = self.max[1]
           THEN Repeat_exit(self, results, Top.offset)
           ELSE DoStep([Top EXCEPT !.pc = "start", !.results = results])
    /\ UNCHANGED env

\* Repeat_base_returned with None appended like any other value
Repeat_base_returned_none_appended ==
    /\ Running
    /\ Top.self.kind = "Repeat"
    /\ Top.pc = "base"
    /\ ret.kind = "return"
    /\ LET self == Top.self
           offset == ret.new_offset
           results == Append(Top.results, ret.result)
       IN  IF self.max /= <<>> /\ Len(results) = self.max[1]
           THEN Repeat_exit(self, results, offset)
           ELSE DoStep([Top EXCEPT !.pc = "start", !.offset = offset,
                                   !.results = results])
    /\ UNCHANGED env

\* offset = result.new_offset, the append, the max check
Repeat_base_returned ==
    /\ Running
    /\ Top.self.kind = "Repeat"
    /\ Top.pc = "base"
    /\ ret.kind = "return"
    /\ LET self == Top.self
           offset == ret.new_offset
           results == IF ret.result.t /= "none"
                      THEN Append(Top.results, ret.result)
                      ELSE Top.results
       IN  IF self.max /= <<>> /\ Len(results) = self.max[1]
           THEN Repeat_exit(self, results, offset)
           ELSE DoStep([Top EXCEPT !.pc = "start", !.offset = offset,
                                   !.results = results])
    /\ UNCHANGED env

\* Repeat_except without the except clause
Repeat_except_uncaught ==
    /\ Running
    /\ Top.self.kind = "Repeat"
    /\ Top.pc \in {"separator", "base"}
    /\ ret.kind = "raise"
    /\ DoPropagate
    /\ UNCHANGED env

\* an exception in the try block: except ParseException: break
Repeat_except ==
    /\ Running
    /\ Top.self.kind = "Repeat"
    /\ Top.pc \in {"separator", "base"}
    /\ ret.kind = "raise"
    /\ IF ret.exc.type = "ParseException"
       THEN Repeat_exit(Top.self, Top.results, Top.offset)
       ELSE DoPropagate
    /\ UNCHANGED env

(***************************************************************************)
(* FunctionParser._parse_impl                                              *)
(***************************************************************************)
FunctionParser_call ==
    /\ Running
    /\ Top.self.kind = "FunctionParser"
    /\ Top.pc = "start"
    /\ DoCall([Top EXCEPT !.pc = "base"], Top.self.base_parser, Top.offset, "base", 0)
    /\ UNCHANGED env

\* FunctionParser_post_parse without the except clause: the error of post_parse
\* leaves as it is
FunctionParser_post_parse_uncaught ==
    /\ Running
    /\ Top.self.kind = "FunctionParser"
    /\ Top.pc = "base"
    /\ ret.kind = "return"
    /\ LET called == Call(Top.self.post_parse, ret.result)
           post == <<TopEv("post_parse", ret.new_offset, 0, ret.result)>>
       IN  IF called.ok
           THEN DoReturn(post, called.value, ret.new_offset)
           ELSE DoRaise(post, called.err, "")
    /\ UNCHANGED env

\* FunctionParser_post_parse with the error of post_parse swallowed: the parser
\* yields no value and keeps the child's new_offset
FunctionParser_post_parse_swallowed ==
    /\ Running
    /\ Top.self.kind = "FunctionParser"
    /\ Top.pc = "base"
    /\ ret.kind = "return"
    /\ LET called == Call(Top.self.post_parse, ret.result)
           post == <<TopEv("post_parse", ret.new_offset, 0, ret.result)>>
       IN  IF called.ok
           THEN DoReturn(post, called.value, ret.new_offset)
           ELSE DoReturn(post, None, ret.new_offset)
    /\ UNCHANGED env

\* the try block: post_parse on the child's value
FunctionParser_post_parse ==
    /\ Running
    /\ Top.self.kind = "FunctionParser"
    /\ Top.pc = "base"
    /\ ret.kind = "return"
    /\ LET called == Call(Top.self.post_parse, ret.result)
           post == <<TopEv("post_parse", ret.new_offset, 0, ret.result)>>
       IN  IF called.ok
           THEN DoReturn(post, called.value, ret.new_offset)
           ELSE DoRaise(post, "ParseException", "Post-parse function failed.")
    /\ UNCHANGED env

\* the child's call is outside the try block
FunctionParser_base_raised ==
    /\ Running
    /\ Top.self.kind = "FunctionParser"
    /\ Top.pc = "base"
    /\ ret.kind = "raise"
    /\ DoPropagate
    /\ UNCHANGED env

(***************************************************************************)
(* Pair._parse_impl                                                        *)
(***************************************************************************)
Pair_parser1 ==
    /\ Running
    /\ Top.self.kind = "Pair"
    /\ Top.pc = "start"
    /\ DoCall([Top EXCEPT !.pc = "parser1"], Top.self.parser1, Top.offset, "parser", 1)
    /\ UNCHANGED env

\* Pair_parser2 with parser2 run from the offset at which the Pair started
Pair_parser2_from_start ==
    /\ Running
    /\ Top.self.kind = "Pair"
    /\ Top.pc = "parser1"
    /\ ret.kind = "return"
    /\ DoCall([Top EXCEPT !.pc = "parser2", !.result1 = ret],
              Top.self.parser2, Top.offset, "parser", 2)
    /\ UNCHANGED env

Pair_parser2 ==
    /\ Running
    /\ Top.self.kind = "Pair"
    /\ Top.pc = "parser1"
    /\ ret.kind = "return"
    /\ DoCall([Top EXCEPT !.pc = "parser2", !.result1 = ret],
              Top.self.parser2, ret.new_offset, "parser", 2)
    /\ UNCHANGED env

Pair_return ==
    /\ Running
    /\ Top.self.kind = "Pair"
    /\ Top.pc = "parser2"
    /\ ret.kind = "return"
    /\ DoReturn(<<>>, Tuple(<<Top.result1.result, ret.result>>), ret.new_offset)
    /\ UNCHANGED env

\* Pair_raised with the exception caught and a new one raised in its place
Pair_raised_wrapped ==
    /\ Running
    /\ Top.self.kind = "Pair"
    /\ Top.pc \in {"parser1", "parser2"}
    /\ ret.kind = "raise"
    /\ DoRaise(<<>>, "ParseException", "Pair failed")
    /\ UNCHANGED env

Pair_raised ==
    /\ Running
    /\ Top.self.kind = "Pair"
    /\ Top.pc \in {"parser1", "parser2"}
    /\ ret.kind = "raise"
    /\ DoPropagate
    /\ UNCHANGED env

(***************************************************************************)
(* Series._parse_impl                                                      *)
(***************************************************************************)
\* the head of the for loop, and the return after it
Series_next ==
    /\ Running
    /\ Top.self.kind = "Series"
    /\ Top.pc = "start"
    /\ LET self == Top.self IN
       IF Top.i > Len(self.parsers)
       THEN DoReturn(<<>>, List(Top.results), Top.offset)
       ELSE IF self.separator_parser /= <<>> /\ Top.results /= <<>>
       THEN DoCall([Top EXCEPT !.pc = "separator"], self.separator_parser[1],
                   Top.offset, "separator", Top.i)
       ELSE DoCall([Top EXCEPT !.pc = "parser"], self.parsers[Top.i],
                   Top.offset, "parser", Top.i)
    /\ UNCHANGED env

Series_separator_returned ==
    /\ Running
    /\ Top.self.kind = "Series"
    /\ Top.pc = "separator"
    /\ ret.kind = "return"
    /\ DoCall([Top EXCEPT !.pc = "parser", !.offset = ret.new_offset],
              Top.self.parsers[Top.i], ret.new_offset, "parser", Top.i)
    /\ UNCHANGED env

\* Series_parser_returned with every value appended, None too
Series_parser_returned_all ==
    /\ Running
    /\ Top.self.kind = "Series"
    /\ Top.pc = "parser"
    /\ ret.kind = "return"
    /\ DoStep([Top EXCEPT !.pc = "start", !.offset = ret.new_offset, !.i = @ + 1,
                          !.results = Append(@, ret.result)])
    /\ UNCHANGED env

Series_parser_returned ==
    /\ Running
    /\ Top.self.kind = "Series"
    /\ Top.pc = "parser"
    /\ ret.kind = "return"
    /\ DoStep([Top EXCEPT !.pc = "start", !.offset = ret.new_offset, !.i = @ + 1,
                          !.results = IF ret.result.t /= "none"
                                      THEN Append(@, ret.result) ELSE @])
    /\ UNCHANGED env

\* Series_raised with the failure taken as the end of the series
Series_raised_partial ==
    /\ Running
    /\ Top.self.kind = "Series"
    /\ Top.pc \in {"separator", "parser"}
    /\ ret.kind = "raise"
    /\ DoReturn(<<>>, List(Top.results), Top.offset)
    /\ UNCHANGED env

Series_raised ==
    /\ Running
    /\ Top.self.kind = "Series"
    /\ Top.pc \in {"separator", "parser"}
    /\ ret.kind = "raise"
    /\ DoPropagate
    /\ UNCHANGED env

(***************************************************************************)
(* Parser.parse_string                                                     *)
(***************************************************************************)
NoOutcome == [kind |-> "none", result |-> None, exc |-> NoExc]

\* the first frame of a parse
Enter(self, d, offset) ==
    /\ pc = "idle"
    /\ data' = d
    /\ root' = <<self>>
    /\ stack' = <<Frame(self, offset, "root", 0)>>
    /\ ret' = NoRet
    /\ outcome' = NoOutcome
    /\ pc' = "running"
    /\ trace' = <<Ev("call", 1, "parse_string", self.kind, "root", 0, offset, 0, None)>>
    /\ nraised' = 0

NoReader == <<>>

\* one thread, nothing run before
Unshared ==
    /\ other' = <<>>
    /\ alone' = <<>>
    /\ UNCHANGED grid

\* self._parse(data, offset), called from outside the parser tree
Parser_parse(self, d, offset) ==
    /\ Enter(self, d, offset)
    /\ reader' = NoReader
    /\ Unshared

\* self._parse(data, 0)
parse_string(self, d) == Parser_parse(self, d, 0)

\* problem_input = parser.parse_file(file) in file_reader, file being a TextIO:
\* file.read() once, then parse_string on what was read
parse_file(self, text) ==
    /\ Enter(self, text, 0)
    /\ reader' = <<[text |-> text, reads |-> 1, func_calls |-> <<>>]>>
    /\ Unshared

\* .result of the ParseResult, or the exception going on to the caller
parse_string_return ==
    /\ pc = "running"
    /\ stack = <<>>
    /\ outcome' = [kind |-> ret.kind, result |-> ret.result, exc |-> ret.exc]
    /\ pc' = IF reader = NoReader THEN "done" ELSE "parsed"
    /\ UNCHANGED <<call, data, root, stack, ret, trace, nraised, reader, other, alone, grid>>

\* what the decorated function returns for x
func(x) == [t |-> "result", s |-> <<>>, l |-> <<x>>, n |-> 0]

\* file_reader_return with func called only when the parser took all the input
file_reader_return_all_consumed ==
    /\ pc = "parsed"
    /\ IF outcome.kind = "return" /\ ret.new_offset = Len(data)
       THEN /\ reader' = <<[reader[1] EXCEPT !.func_calls = Append(@, outcome.result)]>>
            /\ outcome' = [outcome EXCEPT !.result = func(outcome.result)]
       ELSE /\ outcome' = [outcome EXCEPT !.kind = "raise"]
            /\ UNCHANGED reader
    /\ pc' = "done"
    /\ UNCHANGED <<call, data, root, stack, ret, trace, nraised, other, alone, grid>>

\* return func(problem_input), or the exception of parse_file going on
file_reader_return ==
    /\ pc = "parsed"
    /\ IF outcome.kind = "return"
       THEN /\ reader' = <<[reader[1] EXCEPT !.func_calls = Append(@, outcome.result)]>>
            /\ outcome' = [outcome EXCEPT !.result = func(outcome.result)]
       ELSE UNCHANGED <<outcome, reader>>
    /\ pc' = "done"
    /\ UNCHANGED <<call, data, root, stack, ret, trace, nraised, other, alone, grid>>

(***************************************************************************)
(* Constructor calls.  Pair.__init__ takes parser1 and parser2 and nothing *)
(* else, so a call that passes the keyword separator raises TypeError.     *)
(***************************************************************************)
Built(parser) == [ok |-> TRUE, parser |-> <<parser>>, err |-> ""]
NotBuilt(type) == [ok |-> FALSE, parser |-> <<>>, err |-> type]

Pair_init(parser1, parser2, separator) ==
    IF separator = <<>> THEN Built(Pair(parser1, parser2)) ELSE NotBuilt("TypeError")

Called(class, args, separator) ==
    [class |-> class, args |-> args, separator |-> separator]

\* the constructor call raised: there is no parser to run
construct_failed(type, d) ==
    /\ data' = d
    /\ root' = <<>>
    /\ stack' = <<>>
    /\ ret' = NoRet
    /\ outcome' = [kind |-> "raise", result |-> None,
                   exc |-> [type |-> type, msg |-> "unexpected keyword argument", id |-> 1]]
    /\ pc' = "done"
    /\ trace' = <<>>
    /\ nraised' = 1
    /\ reader' = NoReader
    /\ Unshared

(***************************************************************************)
(* The grammars and inputs of the model.                                   *)
(***************************************************************************)
Inputs == UNION {[1..n -> Alphabet] : n \in 0..MaxLen}

\* the two inputs of the Lines scenario
Scenarios ==
    { <<"a", "b", "c", "\n", "d", "e", "f", "\n">>,
      <<"a", "b", "c", "\n", "d", "e", "f">> }

Counts == {NoCount} \cup {<<n>> : n \in 0..MaxCount}

\* children of Repeat: a value, no value, a transform that can fail, two characters
Children ==
    << Char(NoChars, {"\n"}),
       Suppress(Char(<<{"a"}>>, {"\n"})),
       FunctionParser(Char(NoChars, {"\n"}), int),
       Literal(<<"a", "1">>) >>

Separators ==
    << NoParser, <<Literal(<<",">>)>> >>

\* children of Series and Pair
Items ==
    << Char(NoChars, {"\n"}),
       Suppress(Char(<<{"a"}>>, {"\n"})),
       Char(<<{"1"}>>, {"\n"}) >>

\* children and callables of FunctionParser
Bases ==
    << Char(NoChars, {"\n"}),
       String(NoChars, {"\n"}),
       Pair(Char(<<{"a"}>>, {"\n"}), String(<<Digits>>, {"\n"})) >>

Callables == <<join, int, first, discard, int_of_pair({"a"}, 10)>>

Grammars == <<Lines, IntLines>>

\* arguments of Char: allowed_chars (None, or a string) and illegal_chars
AllowedChars == {NoChars, <<{"a"}>>, <<{"a", "\n"}>>}
IllegalChars == {{}, {"\n"}, {"a", "\n"}}

Init ==
    /\ call = Called("", <<>>, NoParser)
    /\ data = <<>>
    /\ root = <<>>
    /\ stack = <<>>
    /\ ret = NoRet
    /\ outcome = NoOutcome
    /\ pc = "idle"
    /\ trace = <<>>
    /\ nraised = 0
    /\ reader = NoReader
    /\ other = <<>>
    /\ alone = <<>>
    /\ grid = <<>>

Step ==
    \/ Char_parse_impl
    \/ Repeat_try
    \/ Repeat_separator_returned
    \/ Repeat_base_returned
    \/ Repeat_except
    \/ FunctionParser_call
    \/ FunctionParser_post_parse
    \/ FunctionParser_base_raised
    \/ Pair_parser1
    \/ Pair_parser2
    \/ Pair_return
    \/ Pair_raised
    \/ Series_next
    \/ Series_separator_returned
    \/ Series_parser_returned
    \/ Series_raised
    \/ parse_string_return
    \/ file_reader_return

ParseRepeat ==
    /\ pc = "idle"
    /\ \E d \in Inputs, c \in 1..Len(Children), s \in 1..Len(Separators),
          min \in Counts, max \in Counts :
           /\ parse_string(Repeat(Children[c], Separators[s], min, max), d)
           /\ call' = Called("Repeat", <<c>>, Separators[s])

ParseSeries ==
    /\ pc = "idle"
    /\ \E d \in Inputs, n \in 0..MaxParsers, s \in 1..Len(Separators) :
         \E f \in [1..n -> 1..Len(Items)] :
           /\ parse_string(Series([i \in 1..n |-> Items[f[i]]], Separators[s]), d)
           /\ call' = Called("Series", f, Separators[s])

ParsePair ==
    /\ pc = "idle"
    /\ \E d \in Inputs, p \in 1..Len(Items), q \in 1..Len(Items),
          s \in 1..Len(Separators) :
           LET built == Pair_init(Items[p], Items[q], Separators[s]) IN
           /\ call' = Called("Pair", <<p, q>>, Separators[s])
           /\ IF built.ok
              THEN parse_string(built.parser[1], d)
              ELSE construct_failed(built.err, d)

ParseFunctionParser ==
    /\ pc = "idle"
    /\ \E d \in Inputs, b \in 1..Len(Bases), f \in 1..Len(Callables) :
           /\ parse_string(FunctionParser(Bases[b], Callables[f]), d)
           /\ call' = Called("FunctionParser", <<b, f>>, NoParser)

\* an Enum with the members UP and DOWN, and the inputs of its parser
UpDown == Class({<<"U", "P">>, <<"D", "O", "W", "N">>}, <<>>)
EnumInputs ==
    UNION {[1..n -> {"U", "P", "u", "p", " "}] : n \in 0..MaxLen}
        \cup {<<"D", "O", "W", "N">>}

ParseEnumeration ==
    /\ pc = "idle"
    /\ \E d \in EnumInputs :
         \E offset \in 0..Len(d) :
           /\ Parser_parse(Enumeration(UpDown), d, offset)
           /\ call' = Called("Enumeration", <<offset>>, NoParser)

\* the dataclass of day02 and a DataClass over a Series of n values, alone or as
\* the child of a Repeat
Movement == Class({}, <<"direction", "velocity">>)

ParseDataClass ==
    /\ pc = "idle"
    /\ \E d \in Inputs, n \in 0..MaxParsers, repeated \in BOOLEAN :
         LET record == DataClass(Movement,
                                 Series([i \in 1..n |-> Char(NoChars, {"\n"})], NoParser))
         IN  /\ parse_string(IF repeated
                             THEN Repeat(record, NoParser, NoCount, NoCount)
                             ELSE record, d)
             /\ call' = Called("DataClass", <<n, repeated>>, NoParser)

\* the parsers handed to the decorator parse
Decorated == <<IntLines, Line>>

\* parse(parser)(func)(file)
file_reader ==
    /\ pc = "idle"
    /\ \E text \in Inputs, g \in 1..Len(Decorated) :
           /\ parse_file(Decorated[g], text)
           /\ call' = Called("file_reader", <<g>>, NoParser)

\* str(n) for n >= 0, and ",".join of the numerals of a list
DigitChar == <<"0", "1", "2", "3", "4", "5", "6", "7", "8", "9">>

RECURSIVE Numeral(_)
Numeral(n) ==
    IF n < 10 THEN <<DigitChar[n + 1]>>
    ELSE Numeral(n \div 10) \o <<DigitChar[(n % 10) + 1]>>

RECURSIVE Joined(_)
Joined(ns) ==
    IF Len(ns) = 1 THEN Numeral(ns[1])
    ELSE Numeral(ns[1]) \o <<",">> \o Joined(Tail(ns))

\* the lists written out for CallsParser of day04: Repeat(Int(), separator=Literal(","))
NumberLists ==
    UNION {[1..n -> {0, 7, 10}] : n \in 1..MaxCount} \cup {<<3, 1, 4, 1, 5>>}

ParseNumbers ==
    /\ pc = "idle"
    /\ \E ns \in NumberLists :
           /\ parse_string(Repeat(Int_(10, {}), <<Literal(<<",">>)>>, NoCount, NoCount),
                           Joined(ns))
           /\ call' = Called("Numbers", ns, NoParser)

\* Repeat(String(...)): a child that matches the empty text
ParseRepeatString ==
    /\ pc = "idle"
    /\ \E d \in Inputs, allowed \in {NoChars, <<{"a"}>>}, s \in 1..Len(Separators),
          max \in Counts :
           /\ parse_string(Repeat(String(allowed, {"\n"}), Separators[s], NoCount, max), d)
           /\ call' = Called("RepeatString", <<allowed, max>>, Separators[s])

\* parser trees that two parses use, and the inputs of the parses
Shared ==
    << IntLines,
       Repeat(Literal(<<"a", "1">>), <<Literal(<<",">>)>>, <<0>>, <<2>>) >>

SharedInputs ==
    { <<"1", "\n", "a">>, <<"1", "\n">>, <<"a", "1", ",">>, <<"a", "1", ",", "a", "1">> }

\* the locals of a parse that is not running now
Suspended(d, s, r, o, p, t, n) ==
    [data |-> d, stack |-> s, ret |-> r, outcome |-> o, pc |-> p, trace |-> t,
     nraised |-> n]

\* parser.parse_string(d) run alone, d being the input of the first of two
\* threads that will share parser
ParseShared ==
    /\ pc = "idle"
    /\ \E g \in 1..Len(Shared), d1 \in SharedInputs, d2 \in SharedInputs :
           /\ Enter(Shared[g], d1, 0)
           /\ call' = Called("Shared", <<g, d1, d2>>, NoParser)
    /\ reader' = NoReader
    /\ Unshared

\* two threads call parse_string on the same parser, each with its input
parse_string_twice ==
    /\ pc = "done"
    /\ call.class = "Shared"
    /\ alone = <<>>
    /\ alone' = <<ret>>
    /\ data' = call.args[2]
    /\ stack' = <<Frame(root[1], 0, "root", 0)>>
    /\ ret' = NoRet
    /\ outcome' = NoOutcome
    /\ pc' = "running"
    /\ trace' = <<Ev("call", 1, "parse_string", root[1].kind, "root", 0, 0, 0, None)>>
    /\ nraised' = 0
    /\ other' = <<Suspended(call.args[3], <<Frame(root[1], 0, "root", 0)>>, NoRet,
                            NoOutcome, "running",
                            <<Ev("call", 1, "parse_string", root[1].kind, "root", 0, 0, 0,
                                 None)>>, 0)>>
    /\ UNCHANGED <<call, root, reader, grid>>

\* the scheduler takes the running thread off and puts the other one on
switch ==
    /\ pc \in {"running", "done"}
    /\ other /= <<>>
    /\ other[1].pc = "running"
    /\ other' = <<Suspended(data, stack, ret, outcome, pc, trace, nraised)>>
    /\ data' = other[1].data
    /\ stack' = other[1].stack
    /\ ret' = other[1].ret
    /\ outcome' = other[1].outcome
    /\ pc' = other[1].pc
    /\ trace' = other[1].trace
    /\ nraised' = other[1].nraised
    /\ UNCHANGED <<call, root, reader, alone, grid>>

(***************************************************************************)
(* utils.geometry.Grid2D                                                   *)
(***************************************************************************)
Point2D(x, y) == [x |-> x, y |-> y]

\* an empty dict; d[key] = val; del d[key]
EmptyDict == [k \in {} |-> 0]
DictSet(d, key, val) == [k \in DOMAIN d \cup {key} |-> IF k = key THEN val ELSE d[k]]
DictDel(d, key) == [k \in DOMAIN d \ {key} |-> d[k]]

Rect2D(top_left, bottom_right) == [top_left |-> top_left, bottom_right |-> bottom_right]

contains_point(self, p) ==
    /\ self.top_left.x <= p.x /\ p.x < self.bottom_right.x
    /\ self.top_left.y <= p.y /\ p.y < self.bottom_right.y

\* a Grid2D has no rect, a SizedGrid2D has <<one>>
Grid2D(reverse_lookup) ==
    [data |-> EmptyDict, reverse_lookup |-> reverse_lookup,
     reverse_lookup_dict |-> EmptyDict, rect |-> <<>>, exc |-> ""]

SizedGrid2D(rect, reverse_lookup) ==
    [Grid2D(reverse_lookup) EXCEPT !.rect = <<rect>>]

\* self[key] = val: SizedGrid2D.__setitem__ tests the rect and calls
\* Grid2D.__setitem__
setitem(self, key, val) ==
    IF self.rect /= <<>> /\ ~contains_point(self.rect[1], key)
    THEN [self EXCEPT !.exc = "Exception"]
    ELSE [self EXCEPT !.reverse_lookup_dict = IF self.reverse_lookup
                                              THEN DictSet(@, val, key)
                                              ELSE @,
                      !.data = DictSet(@, key, val),
                      !.exc = ""]

\* del self[key]
delitem(self, key) ==
    IF key \in DOMAIN self.data
    THEN [self EXCEPT !.data = DictDel(@, key), !.exc = ""]
    ELSE [self EXCEPT !.exc = "KeyError"]

\* self.find(val): <<the position>>, or <<>> for None
find(self, val) ==
    IF ~self.reverse_lookup
    THEN [exc |-> "Exception", result |-> <<>>]
    ELSE [exc |-> "",
          result |-> IF val \in DOMAIN self.reverse_lookup_dict
                     THEN <<self.reverse_lookup_dict[val]>>
                     ELSE <<>>]

\* the loop of from_data over the cells of the rows from row y on, from column
\* x on in row y
RECURSIVE from_data_cells(_, _, _, _)
from_data_cells(self, rows, y, x) ==
    IF y > Len(rows) THEN self
    ELSE IF x > Len(rows[y]) THEN from_data_cells(self, rows, y + 1, 1)
    ELSE from_data_cells(setitem(self, Point2D(x - 1, y - 1), rows[y][x]), rows, y, x + 1)

\* the positions and the cell values of the grids, the bingo cards
Points == {Point2D(0, 0), Point2D(1, 0), Point2D(0, 1)}
Cells == {1, 2}
Cards == UNION {[1..h -> [1..2 -> Cells]] : h \in 1..2}

\* Grid2D(reverse_lookup=...)
Grid2D_init ==
    /\ pc = "idle"
    /\ \E reverse_lookup \in BOOLEAN : grid' = <<Grid2D(reverse_lookup)>>
    /\ pc' = "grid"
    /\ UNCHANGED <<call, data, root, stack, ret, outcome, trace, nraised, reader, other,
                   alone>>

\* SizedGrid2D.from_data(data, reverse_lookup=True), as Bingo.__init__ calls it
from_data ==
    /\ pc = "idle"
    /\ \E rows \in Cards :
         LET rect == Rect2D(Point2D(0, 0), Point2D(Len(rows[1]), Len(rows)))
         IN  grid' = <<from_data_cells(SizedGrid2D(rect, TRUE), rows, 1, 1)>>
    /\ pc' = "grid"
    /\ UNCHANGED <<call, data, root, stack, ret, outcome, trace, nraised, reader, other,
                   alone>>

Grid2D_setitem ==
    /\ pc = "grid"
    /\ \E key \in Points, val \in Cells : grid' = <<setitem(grid[1], key, val)>>
    /\ UNCHANGED <<call, data, root, stack, ret, outcome, pc, trace, nraised, reader, other,
                   alone>>

Grid2D_delitem ==
    /\ pc = "grid"
    /\ \E key \in Points : grid' = <<delitem(grid[1], key)>>
    /\ UNCHANGED <<call, data, root, stack, ret, outcome, pc, trace, nraised, reader, other,
                   alone>>

\* a Line run at any offset of the input
ParseLine ==
    /\ pc = "idle"
    /\ \E d \in Inputs :
         \E offset \in 0..Len(d) :
           /\ Parser_parse(Line, d, offset)
           /\ call' = Called("Line", <<offset>>, NoParser)

\* the arguments and inputs of Int: padding of spaces or zeros, "  42" and "007"
Paddings == {{}, {" "}, {"0"}}
IntInputs ==
    UNION {[1..n -> {" ", "0", "7"}] : n \in 0..MaxLen}
        \cup {<<" ", " ", "4", "2">>, <<"0", "0", "7">>}

ParseIntParser ==
    /\ pc = "idle"
    /\ \E d \in IntInputs, padding \in Paddings :
           /\ parse_string(Int_(10, padding), d)
           /\ call' = Called("Int", <<padding>>, NoParser)

\* a String run at any offset of the input
ParseString ==
    /\ pc = "idle"
    /\ \E d \in Inputs, allowed \in AllowedChars \cup {<<{}>>}, illegal \in IllegalChars :
         \E offset \in 0..Len(d) :
           /\ Parser_parse(String(allowed, illegal), d, offset)
           /\ call' = Called("String", <<allowed, illegal, offset>>, NoParser)

\* the arguments of Literal
Literals == UNION {[1..n -> {"a", "\n"}] : n \in 0..MaxParsers}

\* a Literal run at any offset of the input
ParseLiteral ==
    /\ pc = "idle"
    /\ \E d \in Inputs, lit \in Literals :
         \E offset \in 0..Len(d) :
           /\ Parser_parse(Literal(lit), d, offset)
           /\ call' = Called("Literal", <<lit, offset>>, NoParser)

\* a Char run at any offset up to one past the end of the input
ParseChar ==
    /\ pc = "idle"
    /\ \E d \in Inputs, allowed \in AllowedChars, illegal \in IllegalChars :
         \E offset \in 0..(Len(d) + 1) :
           /\ Parser_parse(Char(allowed, illegal), d, offset)
           /\ call' = Called("Char", <<offset>>, NoParser)

ParseGrammar ==
    /\ pc = "idle"
    /\ \E d \in Inputs \cup Scenarios, g \in 1..Len(Grammars) :
           /\ parse_string(Grammars[g], d)
           /\ call' = Called("Grammar", <<g>>, NoParser)

Next ==
    \/ ParseRepeat
    \/ ParseSeries
    \/ ParsePair
    \/ ParseFunctionParser
    \/ ParseGrammar
    \/ ParseChar
    \/ ParseLiteral
    \/ ParseString
    \/ ParseIntParser
    \/ ParseLine
    \/ ParseEnumeration
    \/ ParseDataClass
    \/ file_reader
    \/ ParseNumbers
    \/ ParseShared
    \/ ParseRepeatString
    \/ Grid2D_init
    \/ from_data
    \/ Grid2D_setitem
    \/ Grid2D_delitem
    \/ parse_string_twice
    \/ switch
    \/ Step

Spec == Init /\ [][Next]_vars

\* the interpreter goes on running a call that has a next statement
Progress == Init /\ [][Next]_vars /\ WF_vars(Step)

(***************************************************************************)
(* What the claims speak of.                                               *)
(***************************************************************************)
Done == pc = "done"
Parser == root[1]
Parsed(kind) == Done /\ root /= <<>> /\ Parser.kind = kind

\* what the parsers called by the root parser did, in order
Below == SelectSeq(trace, LAMBDA e : e.depth = 2)

\* the offset after the last success below of a parser in one of `roles`,
\* the start offset when there is none
RECURSIVE LastOffset(_, _)
LastOffset(events, roles) ==
    IF events = <<>> THEN 0
    ELSE LET e == events[Len(events)] IN
         IF e.ev = "return" /\ e.role \in roles THEN e.off
         ELSE LastOffset(SubSeq(events, 1, Len(events) - 1), roles)

StoppedByFailure == Below /= <<>> /\ Below[Len(Below)].ev = "raise"

\* the texts that each of Children matches
Language ==
    << {<<c>> : c \in Alphabet \ {"\n"}},
       {<<"a">>},
       {<<c>> : c \in Alphabet \cap Digits},
       {<<"a", "1">>} >>

\* the number of matching repetitions at the start of d
RECURSIVE Repetitions(_, _)
Repetitions(lang, d) ==
    IF \E u \in lang : Len(u) <= Len(d) /\ SubSeq(d, 1, Len(u)) = u
    THEN LET u == CHOOSE u \in lang : Len(u) <= Len(d) /\ SubSeq(d, 1, Len(u)) = u
         IN  1 + Repetitions(lang, SubSeq(d, Len(u) + 1, Len(d)))
    ELSE 0

NoneBelow == \E i \in 1..Len(Below) : Below[i].ev = "return" /\ Below[i].val.t = "none"

abc_def_n == <<"a", "b", "c", "\n", "d", "e", "f", "\n">>
abc_def == <<"a", "b", "c", "\n", "d", "e", "f">>
abc == Str(<<"a", "b", "c">>)
def == Str(<<"d", "e", "f">>)

\* C1, as claimed: Lines on "abc\ndef\n" returns ["abc", "def"], and Lines on
\* "abc\ndef" ends in a ParseException.
C1_LinesFailsOnUnterminatedLine ==
    (Done /\ root = <<Lines>>) =>
        /\ data = abc_def_n =>
             outcome.kind = "return" /\ outcome.result = List(<<abc, def>>)
        /\ data = abc_def =>
             outcome.kind = "raise" /\ outcome.exc.type = "ParseException"

\* C1, amended: Lines on "abc\ndef\n" returns ["abc", "def"], and Lines on
\* "abc\ndef" returns ["abc"]: the Repeat ends at the line that has no newline
\* and leaves it unconsumed, the offset staying 4.
C1_LinesDropsUnterminatedLine ==
    (Done /\ root = <<Lines>>) =>
        /\ data = abc_def_n =>
             outcome.kind = "return" /\ outcome.result = List(<<abc, def>>)
        /\ data = abc_def =>
             /\ outcome.kind = "return"
             /\ outcome.result = List(<<abc>>)
             /\ ret.new_offset = 4

C1_Witness ==
    Done /\ root = <<Lines>> /\ data = abc_def /\ outcome.kind = "return"

\* C2, as claimed: for every child of Repeat(child, min=m, max=M) and every
\* input that starts with exactly k < M matching repetitions, the parse returns
\* a list of k values when k >= m and raises ParseException when k < m; and
\* Repeat(Char(), min=0) on "" returns [] with offset 0.
C2_RepeatReturnsEveryRepetition ==
    /\ (Parsed("Repeat") /\ call.class = "Repeat" /\ call.separator = NoParser
            /\ Parser.min /= NoCount /\ Parser.max /= NoCount) =>
         LET k == Repetitions(Language[call.args[1]], data) IN
         k < Parser.max[1] =>
             IF k >= Parser.min[1]
             THEN ret.kind = "return" /\ Len(ret.result.l) = k
             ELSE ret.kind = "raise" /\ ret.exc.type = "ParseException"
    /\ (Done /\ data = <<>>
            /\ root = <<Repeat(Char(NoChars, {"\n"}), NoParser, <<0>>, NoCount)>>) =>
         ret = ParseResult(List(<<>>), 0)

\* C2, amended: the same for every child whose successful applications all
\* yield a value other than None.
C2_RepeatReturnsEveryValue ==
    /\ (Parsed("Repeat") /\ call.class = "Repeat" /\ call.separator = NoParser
            /\ Parser.min /= NoCount /\ Parser.max /= NoCount /\ ~NoneBelow) =>
         LET k == Repetitions(Language[call.args[1]], data) IN
         k < Parser.max[1] =>
             IF k >= Parser.min[1]
             THEN ret.kind = "return" /\ Len(ret.result.l) = k
             ELSE ret.kind = "raise" /\ ret.exc.type = "ParseException"
    /\ (Done /\ data = <<>>
            /\ root = <<Repeat(Char(NoChars, {"\n"}), NoParser, <<0>>, NoCount)>>) =>
         ret = ParseResult(List(<<>>), 0)

C2_Witness ==
    /\ Parsed("Repeat") /\ call.class = "Repeat" /\ call.separator = NoParser
    /\ Parser.min = <<2>> /\ Parser.max /= NoCount /\ ~NoneBelow
    /\ Repetitions(Language[call.args[1]], data) = 1
    /\ Repetitions(Language[call.args[1]], data) < Parser.max[1]
    /\ ret.kind = "raise"

\* C3: the list that Repeat(child, max=M) returns has at most M elements, for
\* every M >= 0.
C3_RepeatReturnsAtMostMax ==
    (Parsed("Repeat") /\ Parser.max /= NoCount /\ ret.kind = "return") =>
        Len(ret.result.l) <= Parser.max[1]

\* C4, as claimed: when Repeat stops because its child or its separator failed,
\* the offset it returns is the offset after the last successful child (the
\* start offset when there is none), a separator matched before the failing
\* child not being consumed.
C4_RepeatOffsetAfterLastChild ==
    (Parsed("Repeat") /\ ret.kind = "return" /\ StoppedByFailure) =>
        ret.new_offset = LastOffset(Below, {"base"})

\* C4, amended: when Repeat stops because its child or its separator failed, the
\* offset it returns is the offset after the last successful child or separator
\* (the start offset when there is none): nothing the failing parser matched is
\* consumed, and a separator matched before a failing child is.
C4_RepeatOffsetAfterLastSuccess ==
    (Parsed("Repeat") /\ ret.kind = "return" /\ StoppedByFailure) =>
        ret.new_offset = LastOffset(Below, {"base", "separator"})

C4_Witness ==
    /\ Parsed("Repeat") /\ ret.kind = "return" /\ Len(Below) >= 3
    /\ Below[Len(Below)].ev = "raise" /\ Below[Len(Below)].role = "base"
    /\ Below[Len(Below) - 2].ev = "return" /\ Below[Len(Below) - 2].role = "separator"

\* C5: in a Repeat with a separator, every child attempt after the first comes
\* right after a successful separator, no separator is tried before the first
\* child, and after a failed separator no child is tried.
C5_SeparatorBeforeEveryLaterChild ==
    (root /= <<>> /\ Parser.kind = "Repeat" /\ Parser.separator_parser /= NoParser) =>
        \A i \in 1..Len(Below) :
            /\ (Below[i].ev = "call" /\ Below[i].role = "base" /\ i > 1) =>
                 /\ Below[i - 1].ev = "return"
                 /\ Below[i - 1].role = "separator"
                 /\ Below[i - 1].off = Below[i].off
            /\ (Below[i].ev = "call" /\ Below[i].role = "separator") => i > 1
            /\ (Below[i].ev = "raise" /\ Below[i].role = "separator") => i = Len(Below)

\* C6: when a child or the separator of a Pair or a Series fails, the next thing
\* that happens is that the Pair or Series raises that same exception: no later
\* child runs and nothing is returned.
C6_PairAndSeriesAllOrNothing ==
    /\ \A i \in 1..Len(trace) - 1 :
         (trace[i].ev = "raise" /\ trace[i].by \in {"Pair", "Series"}) =>
             /\ trace[i + 1].ev = "raise"
             /\ trace[i + 1].kind = trace[i].by
             /\ trace[i + 1].depth = trace[i].depth - 1
             /\ trace[i + 1].id = trace[i].id
    /\ (Done /\ root /= <<>> /\ Parser.kind \in {"Pair", "Series"}) =>
         \A i \in 1..Len(Below) :
             Below[i].ev = "raise" =>
                 /\ i = Len(Below)
                 /\ outcome.kind = "raise"
                 /\ outcome.exc.id = Below[i].id

C6_Witness ==
    /\ Parsed("Series") /\ outcome.kind = "raise"
    /\ \E i \in 2..Len(Below) : Below[i].ev = "raise" /\ Below[i].role = "separator"
    /\ Len(Parser.parsers) = 2

\* the values of the children of the root parser, in the order they returned
ChildValues ==
    LET returned == SelectSeq(Below, LAMBDA e : e.ev = "return" /\ e.role = "parser")
    IN  [i \in 1..Len(returned) |-> returned[i].val]

\* C7: the list a successful Series returns holds the values of its children
\* that are not None, in child order, and nothing else; the offset it returns is
\* the offset after the last child.
C7_SeriesReturnsTheValues ==
    (Parsed("Series") /\ ret.kind = "return") =>
        /\ Len(ChildValues) = Len(Parser.parsers)
        /\ ret.result = List(SelectSeq(ChildValues, LAMBDA v : v.t /= "none"))
        /\ ret.new_offset = LastOffset(Below, {"parser"})

C7_Witness ==
    /\ Parsed("Series") /\ ret.kind = "return"
    /\ \E i \in 1..Len(Below) : Below[i].ev = "return" /\ Below[i].role = "separator"
    /\ \E i \in 1..Len(ChildValues) : ChildValues[i].t = "none"
    /\ ret.result.l /= <<>>

\* C8: a successful Series of n children with a separator has matched the
\* separator n - 1 times, once before every child but the first, whatever the
\* values of the children.
C8_SeriesSeparatorBetweenChildren ==
    (Parsed("Series") /\ Parser.separator_parser /= NoParser /\ ret.kind = "return"
        /\ Len(Parser.parsers) >= 1) =>
        /\ Len(SelectSeq(Below, LAMBDA e : e.ev = "return" /\ e.role = "separator"))
             = Len(Parser.parsers) - 1
        /\ \A i \in 1..Len(Below) :
             (Below[i].ev = "call" /\ Below[i].role = "parser" /\ Below[i].idx > 1) =>
                 Below[i - 1].ev = "return" /\ Below[i - 1].role = "separator"

\* C9: Pair(p1, p2, separator=s) is a parser: it parses p1, then s, then p2 and
\* returns the 2-tuple of the values of p1 and p2.
C9_PairTakesSeparator ==
    (Done /\ call.class = "Pair" /\ call.separator /= NoParser) =>
        /\ root /= <<>>
        /\ outcome.kind = "raise" => outcome.exc.type = "ParseException"
        /\ outcome.kind = "return" =>
             /\ outcome.result.t = "tuple"
             /\ Len(outcome.result.l) = 2
             /\ \E i \in 1..Len(Below) :
                  Below[i].ev = "return" /\ Below[i].role = "separator"

\* C10: a FunctionParser whose child fails raises that same exception and does
\* not call post_parse; when the child succeeds it calls post_parse on the
\* child's value and returns what post_parse returns with the child's
\* new_offset; when post_parse raises, it raises a new ParseException, which a
\* Repeat that called the FunctionParser catches as the end of the repetition.
C10_FunctionParserMapsOrFails ==
    /\ \A i \in 1..Len(trace) - 1 :
         LET e == trace[i]
             n == trace[i + 1]
         IN  /\ (e.ev = "raise" /\ e.by = "FunctionParser") =>
                  /\ n.ev = "raise" /\ n.kind = "FunctionParser"
                  /\ n.depth = e.depth - 1 /\ n.id = e.id
             /\ (e.ev = "return" /\ e.by = "FunctionParser") =>
                  /\ n.ev = "post_parse" /\ n.depth = e.depth - 1
                  /\ n.val = e.val /\ n.off = e.off
             /\ e.ev = "post_parse" =>
                  /\ n.depth = e.depth /\ n.kind = "FunctionParser"
                  /\ \/ n.ev = "return" /\ n.off = e.off
                     \/ /\ n.ev = "raise"
                        /\ \A j \in 1..i : trace[j].id /= n.id
             /\ (e.ev = "raise" /\ e.kind = "FunctionParser" /\ e.by = "Repeat"
                    /\ i + 1 < Len(trace)) =>
                  /\ n.depth = e.depth - 1 /\ n.kind = "Repeat"
                  /\ n.ev = "return" \/ n.id /= e.id
    /\ (ret.kind = "raise" /\ Len(trace) >= 2 /\ trace[Len(trace)].ev = "raise"
            /\ trace[Len(trace) - 1].ev = "post_parse") =>
         ret.exc.type = "ParseException"
    /\ (Parsed("FunctionParser") /\ Below[Len(Below)].ev = "return") =>
         LET child == Below[Len(Below)]
             called == Call(Parser.post_parse, child.val)
         IN  IF called.ok
             THEN ret = ParseResult(called.value, child.off)
             ELSE ret.kind = "raise" /\ ret.exc.type = "ParseException"

C10_Witness ==
    /\ Parsed("Repeat") /\ ret.kind = "return" /\ ret.result.l /= <<>>
    /\ \E i \in 1..Len(trace) - 1 :
         /\ trace[i].ev = "post_parse"
         /\ trace[i + 1].ev = "raise" /\ trace[i + 1].by = "Repeat"

\* the post_parse calls of the root Repeat's child that raised
FailedTransforms ==
    {i \in 1..Len(trace) :
        /\ trace[i].ev = "post_parse" /\ trace[i].depth = 2 /\ trace[i].role = "base"
        /\ ~Call(Parser.base_parser.post_parse, trace[i].val).ok}

\* the offset at which the child that reached trace[i] was called
CalledAt(i) ==
    LET j == CHOOSE j \in 1..i :
                 /\ trace[j].ev = "call" /\ trace[j].depth = 2
                 /\ \A k \in (j + 1)..i : ~(trace[k].ev = "call" /\ trace[k].depth = 2)
    IN  trace[j].off

\* C11, as claimed: when post_parse fails after the child of a FunctionParser
\* matched, the input the child matched stays consumed: a Repeat that stops on
\* that failure returns an offset at or past the child's new_offset.
C11_FailedTransformConsumes ==
    (Parsed("Repeat") /\ Parser.base_parser.kind = "FunctionParser"
        /\ ret.kind = "return") =>
        \A i \in FailedTransforms : ret.new_offset >= trace[i].off

\* C11, amended: when post_parse fails after the child of a FunctionParser
\* matched, the FunctionParser raises a ParseException that carries no offset,
\* and a Repeat that stops on that failure returns the offset at which it called
\* the FunctionParser: the input the child matched is not consumed.
C11_FailedTransformNotConsumed ==
    (Parsed("Repeat") /\ Parser.base_parser.kind = "FunctionParser"
        /\ ret.kind = "return") =>
        \A i \in FailedTransforms :
            /\ trace[i + 1].ev = "raise" /\ trace[i + 1].depth = 2
            /\ trace[i + 1] = Below[Len(Below)]
            /\ ret.new_offset = CalledAt(i)
            /\ ret.new_offset <= trace[i].off

C11_Witness ==
    /\ Parsed("Repeat") /\ Parser.base_parser.kind = "FunctionParser"
    /\ ret.kind = "return" /\ ret.result.l /= <<>>
    /\ \E i \in FailedTransforms : CalledAt(i) < trace[i].off /\ CalledAt(i) > 0

\* C12: a Char at an offset below the length of the input returns the character
\* at the offset and offset + 1 exactly when the character is in allowed_chars
\* (when there are any) and not in illegal_chars; otherwise it raises
\* ParseException, for allowed_chars when both tests fail. (The step is the one
\* of the thread that runs the Char: no other thread is put on.)
C12_CharMatchesOneCharacter ==
    [][(Running /\ Top.self.kind = "Char" /\ Top.offset < Len(data) /\ other' = other) =>
          LET self == Top.self
              c == data[Top.offset + 1]
              allowed == self.allowed_chars = NoChars \/ c \in self.allowed_chars[1]
              legal == c \notin self.illegal_chars
          IN  IF allowed /\ legal
              THEN ret' = ParseResult(Str(<<c>>), Top.offset + 1)
              ELSE /\ ret'.kind = "raise"
                   /\ ret'.exc.type = "ParseException"
                   /\ ret'.exc.msg = IF allowed THEN "Expected no" ELSE "Expected one of"]_vars

C12_Witness ==
    /\ Done /\ call.class = "Char" /\ call.args[1] = 1
    /\ Parser.allowed_chars = <<{"a"}>> /\ Parser.illegal_chars = {"\n"}
    /\ Len(data) >= 2 /\ data[2] = "\n"
    /\ ret.kind = "raise" /\ ret.exc.msg = "Expected one of"

\* C13: a Char at an offset at or past the length of the input raises
\* ParseException and no other exception, and never returns.
C13_CharFailsAtOrPastEnd ==
    (Done /\ call.class = "Char" /\ call.args[1] >= Len(data)) =>
        ret.kind = "raise" /\ ret.exc.type = "ParseException"

\* what the Chars of a Literal did: the parsers called by the Series
Chars == SelectSeq(trace, LAMBDA e : e.depth = 3)

\* C14: Literal(L) at an offset returns L and offset + len(L) exactly when the
\* input holds L at the offset; when the input first differs from L (or ends)
\* at position i of L, the ParseException is the one raised by the Char for
\* L[i] at offset + i, after the i Chars before it returned.
C14_LiteralMatchesExactly ==
    (Done /\ call.class = "Literal") =>
        LET L == call.args[1]
            offset == call.args[2]
            differs(i) == offset + i >= Len(data) \/ data[offset + i + 1] /= L[i + 1]
            deviations == {i \in 0..(Len(L) - 1) : differs(i)}
        IN  IF deviations = {}
            THEN ret = ParseResult(Str(L), offset + Len(L))
            ELSE LET i == CHOOSE i \in deviations : \A j \in deviations : i <= j
                     returned == SelectSeq(Chars, LAMBDA e : e.ev = "return")
                     raised == SelectSeq(Chars, LAMBDA e : e.ev = "raise")
                 IN  /\ ret.kind = "raise" /\ ret.exc.type = "ParseException"
                     /\ Len(returned) = i
                     /\ Len(raised) = 1
                     /\ raised[1].kind = "Char" /\ raised[1].idx = i + 1
                     /\ raised[1].off = offset + i
                     /\ raised[1].id = ret.exc.id
                     /\ Chars[Len(Chars)] = raised[1]

C14_Witness ==
    /\ Done /\ call.class = "Literal" /\ Len(call.args[1]) = 2 /\ call.args[2] = 1
    /\ ret.kind = "raise"
    /\ \E i \in 1..Len(Chars) : Chars[i].ev = "raise" /\ Chars[i].idx = 2

\* C15: String(allowed, illegal) at an offset of the input never fails: it
\* returns the longest run of characters from the offset that are all in
\* allowed (when it is not None) and not in illegal, as one str that may be
\* empty, and the offset after the run.
C15_StringTakesLongestRun ==
    (Done /\ call.class = "String") =>
        LET allowed == call.args[1]
            illegal == call.args[2]
            offset == call.args[3]
            fits(c) == (allowed = NoChars \/ c \in allowed[1]) /\ c \notin illegal
            n == CHOOSE n \in 0..(Len(data) - offset) :
                     /\ \A k \in 1..n : fits(data[offset + k])
                     /\ offset + n = Len(data) \/ ~fits(data[offset + n + 1])
        IN  ret = ParseResult(Str(SubSeq(data, offset + 1, offset + n)), offset + n)

C15_Witness ==
    /\ Done /\ call.class = "String" /\ call.args[3] = 1
    /\ ret.kind = "return" /\ ret.result.s = <<"a">> /\ ret.new_offset < Len(data)
    /\ call.args[1] = NoChars /\ call.args[2] = {"\n"}

\* the ways to read the input as k padding characters and then digits
Paddeds ==
    {k \in 0..(Len(data) - 1) :
        /\ \A i \in 1..k : data[i] \in call.args[1]
        /\ \A i \in (k + 1)..Len(data) : data[i] \in Digits}

\* C16: Int(padding=p) on k characters of p followed by a non-empty run d of
\* decimal digits returns the base-10 value of d and the offset k + len(d);
\* Int(padding=" ") on "  42" returns 42 and 4, Int() on "007" returns 7 and 3.
C16_IntSkipsPadding ==
    (Done /\ call.class = "Int" /\ Paddeds /= {}) =>
        \E k \in Paddeds :
            ret = ParseResult(IntV(DigitsValue(SubSeq(data, k + 1, Len(data)), 10, 0)),
                              Len(data))

\* C17: Line at an offset returns the text from the offset up to the first
\* newline at or after it, without the newline, and the offset after that
\* newline; when there is no newline at or after the offset it raises
\* ParseException.
C17_LineNeedsNewline ==
    (Done /\ call.class = "Line") =>
        LET offset == call.args[1]
            newlines == {i \in (offset + 1)..Len(data) : data[i] = "\n"}
        IN  IF newlines /= {}
            THEN LET n == CHOOSE n \in newlines : \A m \in newlines : n <= m
                 IN  ret = ParseResult(Str(SubSeq(data, offset + 1, n - 1)), n)
            ELSE ret.kind = "raise" /\ ret.exc.type = "ParseException"

C17_Witness ==
    /\ Done /\ call.class = "Line" /\ call.args[1] = 1
    /\ ret.kind = "return" /\ ret.result.s /= <<>> /\ ret.new_offset = Len(data)

\* C18: Enumeration(E) at an offset returns the member E[w] and the offset after
\* w exactly when w, the longest run of ASCII letters at the offset, is the name
\* of a member of E, letter case included, and raises ParseException otherwise;
\* with the members UP and DOWN, "UP" gives UP and "up" fails.
C18_EnumerationByExactName ==
    (Done /\ call.class = "Enumeration") =>
        LET offset == call.args[1]
            n == CHOOSE n \in 0..(Len(data) - offset) :
                     /\ \A k \in 1..n : data[offset + k] \in Letters
                     /\ offset + n = Len(data) \/ data[offset + n + 1] \notin Letters
            w == SubSeq(data, offset + 1, offset + n)
        IN  /\ IF w \in {<<"U", "P">>, <<"D", "O", "W", "N">>}
               THEN ret = ParseResult(Member(w), offset + n)
               ELSE ret.kind = "raise" /\ ret.exc.type = "ParseException"
            /\ (offset = 0 /\ data = <<"U", "P">>) =>
                   outcome.kind = "return" /\ outcome.result = Member(<<"U", "P">>)
            /\ (offset = 0 /\ data = <<"u", "p">>) => outcome.kind = "raise"

C18_Witness ==
    /\ Done /\ call.class = "Enumeration" /\ call.args[1] = 0
    /\ data = <<"U", "P", " ">> /\ ret = ParseResult(Member(<<"U", "P">>), 2)

\* C19: when the values handed to the constructor of a DataClass are not as many
\* as the fields of the record, the parse ends in an exception that is not a
\* ParseException: it is not reported as a parse failure, and a Repeat around
\* the DataClass does not take it as the end of the repetition.
C19_FieldCountMismatchFailsLoudly ==
    (Done /\ call.class = "DataClass") =>
        \A i \in 1..Len(trace) :
            (trace[i].ev = "post_parse" /\ Len(trace[i].val.l) /= 2) =>
                outcome.kind = "raise" /\ outcome.exc.type /= "ParseException"

\* C20: the callable that parse(parser)(func) builds reads the whole file once,
\* runs the parser once, from offset 0 on all that was read, and when the parser
\* returns it calls func once, on the parser's value, and returns what func
\* returns, also when the parser's new_offset is below the length of the input;
\* when the parser raises, func is not called.
C20_FileReaderIgnoresTrailingText ==
    (Done /\ reader /= NoReader) =>
        /\ reader[1].reads = 1
        /\ data = reader[1].text
        /\ Len(SelectSeq(trace, LAMBDA e : e.ev = "call" /\ e.depth = 1)) = 1
        /\ trace[1].ev = "call" /\ trace[1].off = 0
        /\ IF ret.kind = "return"
           THEN /\ reader[1].func_calls = <<ret.result>>
                /\ outcome.kind = "return"
                /\ outcome.result = func(ret.result)
           ELSE /\ reader[1].func_calls = <<>>
                /\ outcome.kind = "raise" /\ outcome.exc = ret.exc

C20_Witness ==
    /\ Done /\ reader /= NoReader
    /\ ret.kind = "return" /\ ret.result.l /= <<>> /\ ret.new_offset < Len(data)
    /\ reader[1].func_calls /= <<>>

\* C21: when a part of the input does not match the grammar (the parser raises,
\* or it stops before the end of the input), the callable built by
\* parse(parser)(func) raises and func is never called with what was parsed
\* before that part.
C21_MalformedInputFailsHard ==
    (Done /\ reader /= NoReader /\ (ret.kind = "raise" \/ ret.new_offset < Len(data))) =>
        outcome.kind = "raise" /\ reader[1].func_calls = <<>>

\* C22: a parse started at offset 0 that fails hands its caller a
\* ParseException and nothing else; an exception raised to a Pair, a Series or
\* a FunctionParser by its child leaves it as the same object, only Repeat ends
\* an exception (it returns, or raises a new one for min), and the exception a
\* FunctionParser raises after post_parse is a new object.
C22_OneFailureKind ==
    /\ (Done /\ root /= <<>> /\ trace[1].off = 0 /\ outcome.kind = "raise") =>
           outcome.exc.type = "ParseException"
    /\ \A i \in 1..(Len(trace) - 1) :
         LET e == trace[i]
             n == trace[i + 1]
         IN  /\ (e.ev = "raise" /\ e.depth > 1) =>
                  /\ n.depth = e.depth - 1 /\ n.kind = e.by
                  /\ IF e.by = "Repeat"
                     THEN n.ev = "return" \/ (n.ev = "raise" /\ n.id /= e.id)
                     ELSE n.ev = "raise" /\ n.id = e.id
             /\ (e.ev = "post_parse" /\ n.ev = "raise") =>
                  \A j \in 1..i : trace[j].id /= n.id

C22_Witness ==
    /\ Done /\ call.class = "Pair" /\ root /= <<>> /\ outcome.kind = "raise"
    /\ \E i \in 1..(Len(trace) - 1) :
         /\ trace[i].ev = "raise" /\ trace[i].by = "Pair"
         /\ trace[i + 1].ev = "raise"
    /\ \E i \in 1..Len(trace) : trace[i].ev = "post_parse"

\* C23: Repeat(Int(), separator=Literal(",")) on the decimal numerals of a
\* non-empty list of non-negative integers joined by commas returns that list
\* and the length of the input as offset; "3,1,4,1,5" gives [3, 1, 4, 1, 5].
C23_CommaSeparatedNumbers ==
    (Done /\ call.class = "Numbers") =>
        /\ ret = ParseResult(List([i \in 1..Len(call.args) |-> IntV(call.args[i])]),
                             Len(data))
        /\ data = <<"3", ",", "1", ",", "4", ",", "1", ",", "5">> =>
             outcome.result = List(<<IntV(3), IntV(1), IntV(4), IntV(1), IntV(5)>>)

C23_Witness ==
    /\ Done /\ call.class = "Numbers"
    /\ data = <<"3", ",", "1", ",", "4", ",", "1", ",", "5">>
    /\ outcome.kind = "return" /\ Len(outcome.result.l) = 5

\* the call that the return trace[j] answers
CallOf(j) ==
    CHOOSE i \in 1..(j - 1) :
        /\ trace[i].ev = "call" /\ trace[i].depth = trace[j].depth
        /\ \A k \in (i + 1)..(j - 1) :
             ~(trace[k].ev = "call" /\ trace[k].depth = trace[j].depth)

\* C24: offsets never move backwards: every parser that returns returns a
\* new_offset at or after the offset it was called with, and what follows the
\* return of a child (the call of the next child or separator by the same
\* parent, the parent's post_parse or the parent's return) is at or after the
\* child's new_offset.
C24_OffsetsNeverDecrease ==
    /\ \A j \in 1..Len(trace) :
         trace[j].ev = "return" => trace[j].off >= trace[CallOf(j)].off
    /\ \A i \in 1..(Len(trace) - 1) :
         LET e == trace[i]
             n == trace[i + 1]
         IN  e.ev = "return" =>
               /\ (n.ev = "call" /\ n.depth = e.depth) => n.off >= e.off
               /\ (n.ev \in {"return", "post_parse"} /\ n.depth = e.depth - 1) =>
                    n.off >= e.off

C24_Witness ==
    /\ Done /\ call.class = "Repeat" /\ call.separator /= NoParser
    /\ ret.kind = "return" /\ ret.new_offset = Len(data) /\ Len(data) = 3
    /\ Len(ret.result.l) = 2

\* the parser objects that the fields of a parser object hold
SubParsers(p) ==
    CASE p.kind = "Char" -> {}
      [] p.kind = "Repeat" ->
            {p.base_parser} \cup {p.separator_parser[i] : i \in 1..Len(p.separator_parser)}
      [] p.kind = "FunctionParser" -> {p.base_parser}
      [] p.kind = "Pair" -> {p.parser1, p.parser2}
      [] p.kind = "Series" ->
            {p.parsers[i] : i \in 1..Len(p.parsers)}
                \cup {p.separator_parser[i] : i \in 1..Len(p.separator_parser)}

\* self in every frame is the object that the tree holds at that place
TreeIntact(frames) ==
    /\ frames /= <<>> => frames[1].self = root[1]
    /\ \A k \in 1..(Len(frames) - 1) : frames[k + 1].self \in SubParsers(frames[k].self)

\* C25: a parse changes no field of a parser object: at every step self of
\* every running _parse_impl is the object the tree was built with; and a parse
\* that runs on a tree while another parse of another input runs on it, their
\* steps in any order, returns what it returned when it ran alone before.
C25_ParsersAreNeverMutated ==
    /\ root /= <<>> =>
         /\ TreeIntact(stack)
         /\ other /= <<>> => TreeIntact(other[1].stack)
    /\ (Done /\ alone /= <<>> /\ data = call.args[2]) => ret = alone[1]

C25_Witness ==
    /\ Done /\ alone /= <<>> /\ data = call.args[2] /\ data /= call.args[3]
    /\ other /= <<>> /\ other[1].pc = "done"
    /\ ret.kind = "return" /\ Len(ret.result.l) = 2
    /\ other[1].ret.kind = "return" /\ other[1].ret.result.l /= <<>>

\* C26, as claimed: a Repeat without max does not go round on a child that
\* matches without consuming: once its child has returned the offset it was
\* called with, the Repeat does not call it at that offset again.
C26_ZeroWidthChildIsGuarded ==
    (root /= <<>> /\ Parser.kind = "Repeat" /\ Parser.max = NoCount) =>
        \A i \in 1..Len(Below), k \in 1..Len(Below), j \in 1..Len(Below) :
            (/\ i < k /\ k < j
             /\ Below[i].ev = "call" /\ Below[i].role = "base"
             /\ \A m \in (i + 1)..(k - 1) : Below[m].ev /= "call"
             /\ Below[k].ev = "return" /\ Below[k].role = "base"
             /\ Below[k].off = Below[i].off
             /\ Below[j].ev = "call" /\ Below[j].role = "base")
            => Below[j].off /= Below[i].off

\* C27: in a parse started at offset 0, every parser is called with an offset
\* from 0 to len(data), every new_offset returned is at most len(data), and no
\* IndexError is raised: a Char reads data[offset] only for offset < len(data).
C27_OffsetsStayInTheInput ==
    (trace /= <<>> /\ trace[1].off = 0) =>
        /\ \A i \in 1..Len(trace) :
             /\ trace[i].ev = "call" => trace[i].off \in 0..Len(data)
             /\ trace[i].ev = "return" => trace[i].off \in 0..Len(data)
        /\ \A k \in 1..Len(stack) : stack[k].offset \in 0..Len(data)
        /\ ret.kind = "return" => ret.new_offset \in 0..Len(data)
        /\ ret.kind = "raise" => ret.exc.type /= "IndexError"

C27_Witness ==
    /\ Done /\ trace /= <<>> /\ trace[1].off = 0 /\ Len(data) = MaxLen
    /\ ret.kind = "return" /\ ret.new_offset = Len(data)
    /\ \E i \in 1..Len(trace) :
         trace[i].ev = "raise" /\ trace[i].kind = "Char" /\ trace[i].off = Len(data)

\* the number of values other than None that the child of the root Repeat
\* returned in the first i events below it
Values(i) ==
    Cardinality({j \in 1..i : /\ Below[j].ev = "return" /\ Below[j].role = "base"
                              /\ Below[j].val.t /= "none"})

\* the Repeat went through its loop until its child or separator failed
NotStoppedByMax == Done => StoppedByFailure

SuppressedChild == call.class = "Repeat" /\ call.args[1] = 2 /\ root /= <<>>

\* Repeat counts the values that are not None: the separator is tried exactly
\* when a value was appended before, the loop goes on after a child that
\* returned exactly when max is None or differs from the number of values, and
\* the Repeat raises exactly when that number is below min, returning that many
\* values otherwise.
CountsOnlyValues ==
    (call.class = "Repeat" /\ root /= <<>>) =>
        /\ \A i \in 1..Len(Below) :
             /\ (Below[i].ev = "call" /\ Below[i].role = "separator") => Values(i) >= 1
             /\ (Below[i].ev = "call" /\ Below[i].role = "base"
                    /\ Parser.separator_parser /= NoParser /\ Values(i) >= 1) =>
                  Below[i - 1].ev = "return" /\ Below[i - 1].role = "separator"
             /\ (Below[i].ev = "return" /\ Below[i].role = "base" /\ i < Len(Below)) =>
                  Parser.max = NoCount \/ Values(i) /= Parser.max[1]
        /\ (Done /\ ~StoppedByFailure /\ Below /= <<>>) =>
             Parser.max /= NoCount /\ Values(Len(Below)) = Parser.max[1]
        /\ Done =>
             IF Parser.min /= NoCount /\ Values(Len(Below)) < Parser.min[1]
             THEN ret.kind = "raise" /\ ret.exc.msg = "Expected more repetitions"
             ELSE ret.kind = "return" /\ Len(ret.result.l) = Values(Len(Below))

Applications == SelectSeq(Below, LAMBDA e : e.role = "base" /\ e.ev = "call")
Successes == SelectSeq(Below, LAMBDA e : e.role = "base" /\ e.ev = "return")

\* every success of the child so far ended after the offset it started at
ChildConsumes ==
    \A i \in 1..Len(Successes) : Successes[i].off > Applications[i].off

\* the parses of a Repeat whose child cannot match the empty text
RepeatOfConsumingChild ==
    /\ root /= <<>>
    /\ Parser.kind = "Repeat"
    /\ call.class \in {"Repeat", "Grammar", "Numbers", "Shared", "file_reader"}

\* C29: a Repeat whose child consumes at least one character on every success
\* has at most len(data) - offset successful child applications, and its parse
\* ends: so do the parses of Lines and IntLines, on every input.
C29_RepeatOfConsumingChildTerminates ==
    /\ []((root /= <<>> /\ Parser.kind = "Repeat" /\ ChildConsumes) =>
            Len(Successes) <= Len(data) - trace[1].off)
    /\ [](RepeatOfConsumingChild => ChildConsumes)
    /\ (RepeatOfConsumingChild /\ pc = "running") ~> (pc = "done")

C29_Witness ==
    /\ Done /\ call.class = "Grammar" /\ Parser = IntLines
    /\ Len(data) = MaxLen
    /\ Len(Successes) = 1 /\ Successes[1].off = 2
    /\ Len(Applications) = 2
    /\ ret.kind = "return"

\* C30: in a Grid2D with reverse_lookup enabled, after any sets and deletes,
\* find(v) returns a position only if the grid holds v there now, and returns
\* None when no cell holds v.
C30_FindAgreesWithTheGrid ==
    (grid /= <<>> /\ grid[1].reverse_lookup) =>
        \A v \in Cells :
            LET self == grid[1]
                found == find(self, v)
            IN  /\ found.exc = ""
                /\ found.result /= <<>> =>
                     /\ found.result[1] \in DOMAIN self.data
                     /\ self.data[found.result[1]] = v
                /\ (\A p \in DOMAIN self.data : self.data[p] /= v) => found.result = <<>>

====
